---------------------------- MODULE Spec2Model ----------------------------
(***************************************************************************)
(* Retail planning dashboard: the Planning view (store selector driving a  *)
(* planning fetch) and the SKU Directory (fetch-all, create, delete,       *)
(* client-side search and pagination).                                     *)
(*                                                                         *)
(* Three specifications share the module's variables:                      *)
(*   SpecPlanning  the Planning component and its two kinds of GET         *)
(*   SpecSKUs      the SKUs component, the network and the SKU endpoint    *)
(*   SpecPage      getCurrentPageData over bounded lists, queries, pages   *)
(***************************************************************************)
EXTENDS Integers, Sequences, FiniteSets, TLC

VARIABLES
    \* ---- Planning component ----
    mounted,      \* the mount effects of Planning have run
    open,         \* useState(false): the popover
    value,        \* useState(""): the selected store id
    stores,       \* useState([]): the fetched stores (their ids)
    loading,      \* useState(true)
    skuData,      \* useState([]): the planning rows on display
    storesReq,    \* GET /stores: "none" | "pending" | "done"
    reqs,         \* every GET /planning/:storeId issued so far, in issue order
    \* ---- SKUs component ----
    skusMounted,  \* the mount effect of SKUs has run
    allSKUs,      \* useState([])
    skusLoading,  \* useState(true)  (the SKUs component's `loading`)
    currentPage,  \* useState(1)
    searchQuery,  \* useState('')
    isDrawerOpen, \* useState(false)
    currentSKUs,  \* the rows of the last render (const currentSKUs)
    server,       \* the SKUs the endpoint holds
    net,          \* the requests in flight, in issue order
    ops,          \* number of POST/DELETE calls issued so far
    errorToasts,  \* number of toast.error calls
    failedCalls,  \* number of network calls whose failure reached the client
    deletedOk,    \* ids whose DELETE succeeded (and no later POST of the id succeeded)
    createdOk,    \* ids whose POST succeeded (and no later DELETE of the id succeeded)
    lastGet,      \* outcome of the last GET /skus delivered: "none" | "ok" | "failed"
    issued        \* number of SKU requests issued so far (numbers the requests)

planningVars == <<mounted, open, value, stores, loading, skuData, storesReq, reqs>>
skusVars == <<skusMounted, allSKUs, skusLoading, currentPage, searchQuery,
              isDrawerOpen, currentSKUs, server, net, ops, errorToasts,
              failedCalls, deletedOk, createdOk, lastGet, issued>>
vars == <<planningVars, skusVars>>

(***************************************************************************)
(* Bounds of the model.                                                    *)
(***************************************************************************)
MaxReqs == 3      \* planning fetches issued in one run
MaxWeeks == 1     \* planning rows a store can have
MaxOps == 2       \* POST/DELETE calls issued in one run
MaxPage == 3      \* highest page number the model lets currentPage take
MaxSKUs == 12     \* longest SKU list SpecPage draws

(***************************************************************************)
(* Planning view                                                           *)
(***************************************************************************)
NoStore == ""
StoreIds == {"s1", "s2"}

\* The rows GET /planning/:storeId can answer with: any set of that store's rows.
PlanningRows(s) == {[store |-> s, week |-> w] : w \in 1..MaxWeeks}
PlanningResponses(s) == SUBSET PlanningRows(s)

\* A selector that stays on screen while a fetch is in flight.
SelectorRenderedAlways == TRUE

\* {loading ? <div>Loading stores...</div> : <Popover ...>}
SelectorRendered == ~loading

\* {value ? <PlanningSKU skuData={skuData} /> : "Select a store"}
PlanningView ==
    IF value # NoStore
        THEN [kind |-> "PlanningSKU", rows |-> skuData]
        ELSE [kind |-> "text", rows |-> {}]

PlaceholderShown == PlanningView.kind = "text"

\* An effect that lost its `if (value)` guard.
EffectFetchesAlways(v) == TRUE

\* useEffect(() => { if (value) fetchPlanningData(value) }, [value]):
\* whether the effect, run for selection v, calls fetchPlanningData.
EffectFetches(v) == v # NoStore

\* fetchPlanningData up to its await: the request goes out.
IssuePlanning(rq, v) == Append(rq, [store |-> v, status |-> "pending", data |-> {}])

\* The [value] effect run for selection v.
ValueEffect(rq, v) == IF EffectFetches(v) THEN IssuePlanning(rq, v) ELSE rq

\* A setter that merges the response into the rows already on display.
SetSkuDataMerge(old, data) == old \cup data

\* setSkuData(data)
SetSkuData(old, data) == data

\* onSelect: setValue(currentValue === value ? "" : currentValue)
NextValue(currentValue) == IF currentValue = value THEN NoStore ELSE currentValue

Pending == {i \in 1..Len(reqs) : reqs[i].status = "pending"}

\* Mount: both effects run; fetchStores goes out, the [value] effect sees "".
MountPlanning ==
    /\ ~mounted
    /\ mounted' = TRUE
    /\ storesReq' = "pending"
    /\ reqs' = ValueEffect(reqs, value)
    /\ loading' = TRUE
    /\ UNCHANGED <<open, value, stores, skuData>>
    /\ UNCHANGED skusVars

\* fetchStores: the response arrives; setStores(data.stores || data), finally.
StoresLoaded(list) ==
    /\ storesReq = "pending"
    /\ stores' = list
    /\ loading' = FALSE
    /\ storesReq' = "done"
    /\ UNCHANGED <<mounted, open, value, skuData, reqs>>
    /\ UNCHANGED skusVars

\* fetchStores: the request fails; catch logs, finally.
StoresFailed ==
    /\ storesReq = "pending"
    /\ loading' = FALSE
    /\ storesReq' = "done"
    /\ UNCHANGED <<mounted, open, value, stores, skuData, reqs>>
    /\ UNCHANGED skusVars

\* The popover trigger: onOpenChange={setOpen}
TogglePopover ==
    /\ mounted
    /\ SelectorRendered
    /\ open' = ~open
    /\ UNCHANGED <<mounted, value, stores, loading, skuData, storesReq, reqs>>
    /\ UNCHANGED skusVars

\* A CommandItem's onSelect, then the [value] effect of the re-render.
Select(s) ==
    /\ mounted
    /\ SelectorRendered
    /\ open
    /\ s \in stores
    /\ EffectFetches(NextValue(s)) => Len(reqs) < MaxReqs
    /\ value' = NextValue(s)
    /\ open' = FALSE
    /\ reqs' = ValueEffect(reqs, value')
    /\ loading' = IF reqs' # reqs THEN TRUE ELSE loading
    /\ UNCHANGED <<mounted, stores, skuData, storesReq>>
    /\ UNCHANGED skusVars

\* fetchPlanningData: the response arrives; setSkuData(data), finally.
PlanningLoaded(i, data) ==
    /\ i \in Pending
    /\ data \in PlanningResponses(reqs[i].store)
    /\ skuData' = SetSkuData(skuData, data)
    /\ loading' = FALSE
    /\ reqs' = [reqs EXCEPT ![i] = [@ EXCEPT !.status = "ok", !.data = data]]
    /\ UNCHANGED <<mounted, open, value, stores, storesReq>>
    /\ UNCHANGED skusVars

\* fetchPlanningData: the request fails; catch logs, finally.
PlanningFailed(i) ==
    /\ i \in Pending
    /\ loading' = FALSE
    /\ reqs' = [reqs EXCEPT ![i] = [@ EXCEPT !.status = "failed"]]
    /\ UNCHANGED <<mounted, open, value, stores, skuData, storesReq>>
    /\ UNCHANGED skusVars

InitPlanning ==
    /\ mounted = FALSE
    /\ open = FALSE
    /\ value = NoStore
    /\ stores = {}
    /\ loading = TRUE
    /\ skuData = {}
    /\ storesReq = "none"
    /\ reqs = <<>>

(***************************************************************************)
(* SKU Directory: strings, filter, pagination                              *)
(***************************************************************************)
itemsPerPage == 10

Min(a, b) == IF a < b THEN a ELSE b
Max(a, b) == IF a > b THEN a ELSE b

\* A string is a sequence of characters.  String.prototype.toLowerCase.
LowerChar(c) ==
    CASE c = "W" -> "w"
      [] c = "I" -> "i"
      [] c = "G" -> "g"
      [] c = "A" -> "a"
      [] OTHER -> c

ToLowerCase(str) == [k \in 1..Len(str) |-> LowerChar(str[k])]

\* String.prototype.includes: sub occurs in str at some offset.
Includes(str, sub) ==
    \E k \in 0..(Len(str) - Len(sub)) : SubSeq(str, k + 1, k + Len(sub)) = sub

\* Array.prototype.slice(start, end) for 0 <= start <= end.
Slice(seq, start, end) ==
    LET from == Min(start, Len(seq))
        to == Min(end, Len(seq))
    IN  IF from < to THEN SubSeq(seq, from + 1, to) ELSE <<>>

\* store.label.toLowerCase().includes(searchQuery.toLowerCase())
LabelMatches(sku, query) == Includes(ToLowerCase(sku.label), ToLowerCase(query))

\* allSKUs.filter(...)
FilterSKUs(all, query) == SelectSeq(all, LAMBDA sku : LabelMatches(sku, query))

\* A page computation that starts one page too far.
getCurrentPageDataOffByOne(all, query, page) ==
    LET filteredStores == FilterSKUs(all, query)
        startIndex == page * itemsPerPage
    IN  Slice(filteredStores, startIndex, startIndex + itemsPerPage)

getCurrentPageData(all, query, page) ==
    LET filteredStores == FilterSKUs(all, query)
        startIndex == (page - 1) * itemsPerPage
    IN  Slice(filteredStores, startIndex, startIndex + itemsPerPage)

\* Math.ceil(allSKUs.length / itemsPerPage)
totalPages(all) == (Len(all) + itemsPerPage - 1) \div itemsPerPage

\* if (loading) return <div>Loading SKUs...</div>;  else the table is rendered
TableRendered == skusMounted /\ ~skusLoading

\* const currentSKUs = getCurrentPageData() of the render that follows a state
\* change; while loading the component returns before computing it.
Rendered(all, query, page, isLoading) ==
    IF isLoading THEN <<>> ELSE getCurrentPageData(all, query, page)

Render == currentSKUs' = Rendered(allSKUs', searchQuery', currentPage', skusLoading')

IdsOf(list) == {list[k].id : k \in 1..Len(list)}

(***************************************************************************)
(* SKU Directory: the endpoint /skus                                       *)
(***************************************************************************)
LabelWi == <<"W", "i">>
LabelGa == <<"G", "a">>

\* The SKUs the endpoint holds when the page opens: none, or MaxSKUs of them.
SeedSKUs == {[id |-> n, label |-> IF n % 2 = 1 THEN LabelWi ELSE LabelGa] : n \in 1..MaxSKUs}

\* What the Add SKU form is submitted with: an id the seed does not hold.
FormInputs == {[id |-> MaxSKUs + 1, label |-> LabelWi]}

\* The rows whose delete button the model clicks (when they are on the page).
DeleteTargets == {1, MaxSKUs, MaxSKUs + 1}

\* The search strings the model types in SpecSKUs, and in SpecPage.
SomeQueries == {<<>>, <<"w">>}
Queries == {<<>>, <<"W", "I">>, <<"x">>}

ServerIds == {sku.id : sku \in server}

\* GET /skus: the SKUs held, ordered by id.
RECURSIVE SortedById(_)
SortedById(set) ==
    IF set = {} THEN <<>>
    ELSE LET first == CHOOSE a \in set : \A b \in set : a.id <= b.id
         IN  <<first>> \o SortedById(set \ {first})

Remove(seq, i) == SubSeq(seq, 1, i - 1) \o SubSeq(seq, i + 1, Len(seq))

Request(kind, sku, n) == [kind |-> kind, sku |-> sku, status |-> "sent", data |-> <<>>, n |-> n]
NoSKU == [id |-> 0, label |-> <<>>]

\* The endpoint answers GET /skus with what it holds at that moment.
ServerGet(i) ==
    /\ i \in 1..Len(net)
    /\ net[i].kind = "GET"
    /\ net[i].status = "sent"
    /\ net' = [net EXCEPT ![i] = [@ EXCEPT !.status = "ok", !.data = SortedById(server)]]
    /\ UNCHANGED <<skusMounted, allSKUs, skusLoading, currentPage, searchQuery,
                   isDrawerOpen, currentSKUs, server, ops, errorToasts,
                   failedCalls, deletedOk, createdOk, lastGet, issued>>
    /\ UNCHANGED planningVars

\* The endpoint stores the SKU of a POST /skus (ids are unique).
ServerPost(i) ==
    /\ i \in 1..Len(net)
    /\ net[i].kind = "POST"
    /\ net[i].status = "sent"
    /\ net[i].sku.id \notin ServerIds
    /\ server' = server \cup {net[i].sku}
    /\ net' = [net EXCEPT ![i] = [@ EXCEPT !.status = "ok"]]
    /\ UNCHANGED <<skusMounted, allSKUs, skusLoading, currentPage, searchQuery,
                   isDrawerOpen, currentSKUs, ops, errorToasts,
                   failedCalls, deletedOk, createdOk, lastGet, issued>>
    /\ UNCHANGED planningVars

\* The endpoint removes the SKU of a DELETE /skus/:id.
ServerDelete(i) ==
    /\ i \in 1..Len(net)
    /\ net[i].kind = "DELETE"
    /\ net[i].status = "sent"
    /\ net[i].sku.id \in ServerIds
    /\ server' = {sku \in server : sku.id # net[i].sku.id}
    /\ net' = [net EXCEPT ![i] = [@ EXCEPT !.status = "ok"]]
    /\ UNCHANGED <<skusMounted, allSKUs, skusLoading, currentPage, searchQuery,
                   isDrawerOpen, currentSKUs, ops, errorToasts,
                   failedCalls, deletedOk, createdOk, lastGet, issued>>
    /\ UNCHANGED planningVars

\* Any call can fail (the endpoint rejects it, or the network does).
ServerFail(i) ==
    /\ i \in 1..Len(net)
    /\ net[i].status = "sent"
    /\ net' = [net EXCEPT ![i] = [@ EXCEPT !.status = "failed"]]
    /\ UNCHANGED <<skusMounted, allSKUs, skusLoading, currentPage, searchQuery,
                   isDrawerOpen, currentSKUs, server, ops, errorToasts,
                   failedCalls, deletedOk, createdOk, lastGet, issued>>
    /\ UNCHANGED planningVars

(***************************************************************************)
(* SKU Directory: the SKUs component                                       *)
(***************************************************************************)
\* A setter that appends the response to the list already held.
SetAllSKUsAppend(old, data) == old \o data

\* setAllSKUs(data.skus || data)
SetAllSKUs(old, data) == data

\* fetchSKU up to its await: setLoading(true) and the GET goes out.
FetchSKU(nt, n) == Append(nt, Request("GET", NoSKU, n))

\* handlePageChange(page): setCurrentPage(page)
handlePageChange(page) == page

\* disabled={currentPage === totalPages}
NextEnabled == currentPage # totalPages(allSKUs)

\* disabled={currentPage === 1}
PreviousEnabled == currentPage # 1

\* useEffect(() => { fetchSKU(); }, [])
MountSKUs ==
    /\ ~skusMounted
    /\ skusMounted' = TRUE
    /\ skusLoading' = TRUE
    /\ net' = FetchSKU(net, issued + 1)
    /\ issued' = issued + 1
    /\ UNCHANGED <<allSKUs, currentPage, searchQuery, isDrawerOpen, server, ops,
                   errorToasts, failedCalls, deletedOk, createdOk, lastGet>>
    /\ Render
    /\ UNCHANGED planningVars

\* fetchSKU after its await: setAllSKUs(...), finally setLoading(false).
GetLoaded(i) ==
    /\ i \in 1..Len(net)
    /\ net[i].kind = "GET"
    /\ net[i].status = "ok"
    /\ allSKUs' = SetAllSKUs(allSKUs, net[i].data)
    /\ skusLoading' = FALSE
    /\ lastGet' = "ok"
    /\ net' = Remove(net, i)
    /\ UNCHANGED <<skusMounted, currentPage, searchQuery, isDrawerOpen, server, ops,
                   errorToasts, failedCalls, deletedOk, createdOk, issued>>
    /\ Render
    /\ UNCHANGED planningVars

\* fetchSKU: the GET fails; catch logs to the console, finally setLoading(false).
GetFailed(i) ==
    /\ i \in 1..Len(net)
    /\ net[i].kind = "GET"
    /\ net[i].status = "failed"
    /\ skusLoading' = FALSE
    /\ lastGet' = "failed"
    /\ failedCalls' = failedCalls + 1
    /\ net' = Remove(net, i)
    /\ UNCHANGED <<skusMounted, allSKUs, currentPage, searchQuery, isDrawerOpen,
                   server, ops, errorToasts, deletedOk, createdOk, issued>>
    /\ Render
    /\ UNCHANGED planningVars

\* The drawer's trigger, Cancel button and onOpenChange={setIsDrawerOpen}.
ToggleDrawer ==
    /\ TableRendered
    /\ isDrawerOpen' = ~isDrawerOpen
    /\ UNCHANGED <<skusMounted, allSKUs, skusLoading, currentPage, searchQuery,
                   server, net, ops, errorToasts, failedCalls, deletedOk,
                   createdOk, lastGet, issued>>
    /\ Render
    /\ UNCHANGED planningVars

\* onSubmit up to createSKU's await: the POST goes out.
Submit(form) ==
    /\ TableRendered
    /\ isDrawerOpen
    /\ ops < MaxOps
    /\ net' = Append(net, Request("POST", form, issued + 1))
    /\ issued' = issued + 1
    /\ ops' = ops + 1
    /\ UNCHANGED <<skusMounted, allSKUs, skusLoading, currentPage, searchQuery,
                   isDrawerOpen, server, errorToasts, failedCalls, deletedOk,
                   createdOk, lastGet>>
    /\ Render
    /\ UNCHANGED planningVars

\* onSubmit after createSKU resolved: toast.success, setIsDrawerOpen(false),
\* reset(), fetchSKU().
PostSucceeded(i) ==
    /\ i \in 1..Len(net)
    /\ net[i].kind = "POST"
    /\ net[i].status = "ok"
    /\ isDrawerOpen' = FALSE
    /\ skusLoading' = TRUE
    /\ net' = FetchSKU(Remove(net, i), issued + 1)
    /\ issued' = issued + 1
    /\ createdOk' = createdOk \cup {net[i].sku.id}
    /\ deletedOk' = deletedOk \ {net[i].sku.id}
    /\ UNCHANGED <<skusMounted, allSKUs, currentPage, searchQuery, server, ops,
                   errorToasts, failedCalls, lastGet>>
    /\ Render
    /\ UNCHANGED planningVars

\* onSubmit after createSKU threw: toast.error('Failed to add SKU').
PostFailed(i) ==
    /\ i \in 1..Len(net)
    /\ net[i].kind = "POST"
    /\ net[i].status = "failed"
    /\ errorToasts' = errorToasts + 1
    /\ failedCalls' = failedCalls + 1
    /\ net' = Remove(net, i)
    /\ UNCHANGED <<skusMounted, allSKUs, skusLoading, currentPage, searchQuery,
                   isDrawerOpen, server, ops, deletedOk, createdOk, lastGet, issued>>
    /\ Render
    /\ UNCHANGED planningVars

\* A row's delete button: handleDelete(sku.id) up to its await.
ClickDelete(id) ==
    /\ TableRendered
    /\ id \in IdsOf(currentSKUs)
    /\ ops < MaxOps
    /\ net' = Append(net, Request("DELETE", [id |-> id, label |-> <<>>], issued + 1))
    /\ issued' = issued + 1
    /\ ops' = ops + 1
    /\ UNCHANGED <<skusMounted, allSKUs, skusLoading, currentPage, searchQuery,
                   isDrawerOpen, server, errorToasts, failedCalls, deletedOk,
                   createdOk, lastGet>>
    /\ Render
    /\ UNCHANGED planningVars

\* handleDelete after the DELETE resolved: fetchSKU(), toast.success.
DeleteSucceeded(i) ==
    /\ i \in 1..Len(net)
    /\ net[i].kind = "DELETE"
    /\ net[i].status = "ok"
    /\ skusLoading' = TRUE
    /\ net' = FetchSKU(Remove(net, i), issued + 1)
    /\ issued' = issued + 1
    /\ deletedOk' = deletedOk \cup {net[i].sku.id}
    /\ createdOk' = createdOk \ {net[i].sku.id}
    /\ UNCHANGED <<skusMounted, allSKUs, currentPage, searchQuery, isDrawerOpen,
                   server, ops, errorToasts, failedCalls, lastGet>>
    /\ Render
    /\ UNCHANGED planningVars

\* handleDelete after the DELETE threw: toast.error('Failed to delete SKU').
DeleteFailed(i) ==
    /\ i \in 1..Len(net)
    /\ net[i].kind = "DELETE"
    /\ net[i].status = "failed"
    /\ errorToasts' = errorToasts + 1
    /\ failedCalls' = failedCalls + 1
    /\ net' = Remove(net, i)
    /\ UNCHANGED <<skusMounted, allSKUs, skusLoading, currentPage, searchQuery,
                   isDrawerOpen, server, ops, deletedOk, createdOk, lastGet, issued>>
    /\ Render
    /\ UNCHANGED planningVars

\* The search input: onChange={(e) => setSearchQuery(e.target.value)}
SetSearchQuery(q) ==
    /\ TableRendered
    /\ q # searchQuery
    /\ searchQuery' = q
    /\ UNCHANGED <<skusMounted, allSKUs, skusLoading, currentPage, isDrawerOpen,
                   server, net, ops, errorToasts, failedCalls, deletedOk,
                   createdOk, lastGet, issued>>
    /\ Render
    /\ UNCHANGED planningVars

\* A numbered page button: [...Array(totalPages)].map(... handlePageChange(index + 1))
ClickPage(p) ==
    /\ TableRendered
    /\ p \in 1..totalPages(allSKUs)
    /\ currentPage' = handlePageChange(p)
    /\ UNCHANGED <<skusMounted, allSKUs, skusLoading, searchQuery, isDrawerOpen,
                   server, net, ops, errorToasts, failedCalls, deletedOk,
                   createdOk, lastGet, issued>>
    /\ Render
    /\ UNCHANGED planningVars

\* The Previous button: handlePageChange(currentPage - 1)
ClickPrevious ==
    /\ TableRendered
    /\ PreviousEnabled
    /\ currentPage' = handlePageChange(currentPage - 1)
    /\ UNCHANGED <<skusMounted, allSKUs, skusLoading, searchQuery, isDrawerOpen,
                   server, net, ops, errorToasts, failedCalls, deletedOk,
                   createdOk, lastGet, issued>>
    /\ Render
    /\ UNCHANGED planningVars

\* The Next button: handlePageChange(currentPage + 1)
ClickNext ==
    /\ TableRendered
    /\ NextEnabled
    /\ currentPage < MaxPage
    /\ currentPage' = handlePageChange(currentPage + 1)
    /\ UNCHANGED <<skusMounted, allSKUs, skusLoading, searchQuery, isDrawerOpen,
                   server, net, ops, errorToasts, failedCalls, deletedOk,
                   createdOk, lastGet, issued>>
    /\ Render
    /\ UNCHANGED planningVars

\* SpecPage: the endpoint answers GET /skus with any list of at most MaxSKUs SKUs.
AnyLists ==
    {[k \in 1..Len(labels) |-> [id |-> k, label |-> labels[k]]] :
        labels \in UNION {[1..n -> {LabelWi, LabelGa}] : n \in 0..MaxSKUs}}

AnswerGet(i) ==
    /\ i \in 1..Len(net)
    /\ net[i].kind = "GET"
    /\ net[i].status = "sent"
    /\ \E list \in AnyLists :
          net' = [net EXCEPT ![i] = [@ EXCEPT !.status = "ok", !.data = list]]
    /\ UNCHANGED <<skusMounted, allSKUs, skusLoading, currentPage, searchQuery,
                   isDrawerOpen, currentSKUs, server, ops, errorToasts,
                   failedCalls, deletedOk, createdOk, lastGet, issued>>
    /\ UNCHANGED planningVars

(***************************************************************************)
(* Specifications                                                          *)
(***************************************************************************)
InitSKUs ==
    /\ skusMounted = FALSE
    /\ allSKUs = <<>>
    /\ skusLoading = TRUE
    /\ currentPage = 1
    /\ searchQuery = <<>>
    /\ isDrawerOpen = FALSE
    /\ currentSKUs = <<>>
    /\ net = <<>>
    /\ ops = 0
    /\ errorToasts = 0
    /\ failedCalls = 0
    /\ deletedOk = {}
    /\ createdOk = {}
    /\ lastGet = "none"
    /\ issued = 0

Init == InitPlanning /\ InitSKUs /\ server = {}

InitDirectory == InitPlanning /\ InitSKUs /\ server \in {{}, SeedSKUs}

NextSKUs ==
    \/ MountSKUs
    \/ \E i \in 1..(MaxOps + 1) :
          \/ ServerGet(i)
          \/ ServerPost(i)
          \/ ServerDelete(i)
          \/ ServerFail(i)
          \/ GetLoaded(i)
          \/ GetFailed(i)
          \/ PostSucceeded(i)
          \/ PostFailed(i)
          \/ DeleteSucceeded(i)
          \/ DeleteFailed(i)
    \/ ToggleDrawer
    \/ \E form \in FormInputs : Submit(form)
    \/ \E id \in DeleteTargets : ClickDelete(id)
    \/ \E q \in SomeQueries : SetSearchQuery(q)
    \/ \E p \in 1..MaxPage : ClickPage(p)
    \/ ClickPrevious
    \/ ClickNext

SpecSKUs == InitDirectory /\ [][NextSKUs]_vars

NextPage ==
    \/ MountSKUs
    \/ AnswerGet(1)
    \/ GetLoaded(1)
    \/ \E q \in Queries : SetSearchQuery(q)
    \/ \E p \in 1..MaxPage : ClickPage(p)
    \/ ClickPrevious
    \/ ClickNext

SpecPage == Init /\ [][NextPage]_vars

NextPlanning ==
    \/ MountPlanning
    \/ \E list \in SUBSET StoreIds : StoresLoaded(list)
    \/ StoresFailed
    \/ TogglePopover
    \/ \E s \in StoreIds : Select(s)
    \/ \E i \in 1..MaxReqs : \E data \in SUBSET UNION {PlanningRows(s) : s \in StoreIds} :
           PlanningLoaded(i, data)
    \/ \E i \in 1..MaxReqs : PlanningFailed(i)

SpecPlanning == Init /\ [][NextPlanning]_vars


(***************************************************************************)
(* SKU Directory: properties                                               *)
(***************************************************************************)
NoGetInFlight == \A i \in 1..Len(net) : net[i].kind # "GET"

\* C2: once the DELETE of an id has succeeded, the endpoint no longer holds
\* the id, and every GET /skus has resolved (the last one with a response),
\* the list on display does not contain the id.
C2_DeletedGone ==
    \A x \in deletedOk :
        (x \notin ServerIds /\ NoGetInFlight /\ lastGet = "ok") => x \notin IdsOf(allSKUs)

\* C3: once the POST of an id has succeeded, the endpoint still holds the id,
\* and every GET /skus has resolved successfully, the list on display
\* contains the id.
C3_CreatedShown ==
    \A x \in createdOk :
        (x \in ServerIds /\ NoGetInFlight /\ lastGet = "ok") => x \in IdsOf(allSKUs)

\* label contains query, case-insensitively, stated character by character.
ContainsIgnoringCase(label, query) ==
    \E o \in 0..(Len(label) - Len(query)) :
        \A j \in 1..Len(query) : LowerChar(label[o + j]) = LowerChar(query[j])

\* The positions of allSKUs whose label contains the search string.
MatchingPositions ==
    {k \in 1..Len(allSKUs) : ContainsIgnoringCase(allSKUs[k].label, searchQuery)}

\* rows is the page-th run of 10 of the matching elements of allSKUs, in order.
IsPageOfFiltered(rows, page) ==
    LET first == (page - 1) * 10
        matching == MatchingPositions
    IN  /\ Len(rows) <= 10
        /\ Len(rows) = Min(10, Max(0, Cardinality(matching) - first))
        /\ \A n \in 1..Len(rows) :
              \E k \in matching :
                  /\ Cardinality({j \in matching : j < k}) = first + n - 1
                  /\ rows[n] = allSKUs[k]

\* C4: for every page number >= 1, the rows getCurrentPageData returns are at
\* most 10, each is an element of allSKUs whose label contains the search
\* string case-insensitively, and they are the matching elements number
\* (page-1)*10+1 .. page*10, in the order of allSKUs; the rendered rows are
\* those of the current page.
C4_PageOfFiltered ==
    TableRendered =>
        /\ \A page \in 1..MaxPage :
              IsPageOfFiltered(getCurrentPageData(allSKUs, searchQuery, page), page)
        /\ IsPageOfFiltered(currentSKUs, currentPage)

\* Page 2 of a search in capitals over a list where some labels do not match.
C4_Witness ==
    /\ TableRendered
    /\ currentPage = 2
    /\ searchQuery = <<"W", "I">>
    /\ Len(currentSKUs) >= 1
    /\ Cardinality(MatchingPositions) < Len(allSKUs)

\* C6: every failed network call of the SKU Directory has put up an error toast.
C6_EveryFailureToasted == errorToasts = failedCalls

\* C6, the part about retries: the step that handles a failure issues no request.
C6_NoRetry == [][failedCalls' # failedCalls => issued' = issued]_vars

\* Request i of net is taken off the network by this step: its response is handled.
Delivered(i) == \A j \in 1..Len(net') : net'[j].n # net[i].n

\* The requests this step issues.
IssuedNow == {j \in 1..Len(net') : net'[j].n > issued}

\* C8: allSKUs changes only in the step that handles a GET /skus response and
\* then equals that response; the step that handles a successful POST or
\* DELETE issues exactly one GET /skus; the step that handles a failed POST or
\* DELETE issues nothing and leaves allSKUs, currentPage and searchQuery alone.
C8_RefetchInFull ==
    [][ /\ allSKUs' # allSKUs =>
              \E i \in 1..Len(net) :
                  /\ net[i].kind = "GET"
                  /\ net[i].status = "ok"
                  /\ Delivered(i)
                  /\ allSKUs' = net[i].data
        /\ \A i \in 1..Len(net) :
              Delivered(i) =>
                  /\ (net[i].kind = "GET" /\ net[i].status = "ok")
                        => allSKUs' = net[i].data
                  /\ (net[i].kind # "GET" /\ net[i].status = "ok")
                        => /\ Cardinality(IssuedNow) = 1
                           /\ \A j \in IssuedNow : net'[j].kind = "GET"
                           /\ allSKUs' = allSKUs
                  /\ (net[i].kind # "GET" /\ net[i].status = "failed")
                        => /\ IssuedNow = {}
                           /\ UNCHANGED <<allSKUs, currentPage, searchQuery>> ]_vars

\* A delete failed, another succeeded, and its refetch replaced a non-empty list.
C8_Witness ==
    /\ deletedOk # {}
    /\ errorToasts >= 1
    /\ NoGetInFlight
    /\ lastGet = "ok"
    /\ allSKUs # <<>>
    /\ allSKUs = SortedById(server)

\* C10: currentPage stays within 1..max(1, totalPages).
C10_PageInRange == currentPage \in 1..Max(1, totalPages(allSKUs))

\* C12: loading is true in every state where a GET /skus is in flight.
C12_LoadingWhileFetching == (skusMounted /\ ~NoGetInFlight) => skusLoading

\* C12, the part about ending: once no GET /skus is in flight, loading is false.
C12_LoadingEnds == (skusMounted /\ NoGetInFlight) => ~skusLoading


(***************************************************************************)
(* Planning view: properties                                               *)
(***************************************************************************)
LastReq == reqs[Len(reqs)]

\* C1: when store A and then a different store B were selected and both
\* planning requests have been answered, the rows on display are exactly the
\* answer to B's request, in whatever order the two answers arrived.  The
\* selections are those the selector allows (it is not rendered while loading).
C1_LastSelectionWins ==
    \A i \in 1..Len(reqs) :
        ( /\ i + 1 = Len(reqs)
          /\ reqs[i].store # reqs[i + 1].store
          /\ reqs[i].status # "pending"
          /\ reqs[i + 1].status = "ok" )
        => skuData = reqs[i + 1].data

C1_Witness ==
    /\ Len(reqs) >= 2
    /\ reqs[Len(reqs) - 1].store # LastReq.store
    /\ reqs[Len(reqs) - 1].status = "ok"
    /\ reqs[Len(reqs) - 1].data # {}
    /\ LastReq.status = "ok"
    /\ LastReq.data # {}
    /\ skuData = LastReq.data

\* C5: whenever no store is selected the view shows the "Select a store"
\* placeholder, and no step that leaves the selection empty (the mount, a
\* deselection) issues a planning fetch.
C5_EmptySelection ==
    /\ [](value = NoStore => PlaceholderShown)
    /\ [][value' = NoStore => Len(reqs') = Len(reqs)]_vars

\* A store was selected, its rows loaded, and it has been deselected again.
C5_Witness ==
    /\ value = NoStore
    /\ PlaceholderShown
    /\ Len(reqs) >= 1
    /\ skuData # {}

\* C7: every change of the selection to a non-empty id issues exactly one
\* planning fetch, for that id, whether or not the store was loaded before;
\* and a successful answer replaces the rows on display by the answer.
C7_FetchAndReplace ==
    [][ /\ (value' # value /\ value' # NoStore)
           => reqs' = Append(reqs, [store |-> value', status |-> "pending", data |-> {}])
        /\ \A i \in 1..Len(reqs) :
              ( /\ Len(reqs') = Len(reqs)
                /\ reqs[i].status = "pending"
                /\ reqs'[i].status = "ok" )
              => skuData' = reqs'[i].data ]_vars

\* The same store was fetched twice, and the second answer, which differs
\* from the first, is on display.
C7_Witness ==
    \E i \in 1..Len(reqs) :
        /\ i < Len(reqs)
        /\ reqs[i].store = LastReq.store
        /\ reqs[i].status = "ok"
        /\ LastReq.status = "ok"
        /\ reqs[i].data # LastReq.data
        /\ skuData = LastReq.data

\* C9: when the planning fetch for the selected store has failed, the store
\* stays selected with loading false and nothing in flight, and the rows the
\* view presents for the selected store are not rows of another store.
C9_ErroredView ==
    ( /\ Len(reqs) > 0
      /\ LastReq.status = "failed"
      /\ value = LastReq.store )
    => /\ ~loading
       /\ Pending = {}
       /\ \A r \in PlanningView.rows : r.store = value

\* C9, the part about fetches: a failed planning fetch is not issued again.
C9_NoRetry ==
    [][\A i \in 1..Len(reqs) :
          (Len(reqs') >= i /\ reqs[i].status = "pending" /\ reqs'[i].status = "failed")
          => reqs' = [reqs EXCEPT ![i] = [@ EXCEPT !.status = "failed"]]]_vars

\* The fetches of the Planning view that are in flight: GET /stores counts one.
FetchesInFlight == Cardinality(Pending) + (IF storesReq = "pending" THEN 1 ELSE 0)

\* C11: at most one fetch of the Planning view (stores or planning) is in
\* flight at any time; while one is in flight loading is true, and while
\* loading is true no step changes the selection.
C11_OneFetchInFlight ==
    /\ [](FetchesInFlight <= 1)
    /\ [](FetchesInFlight > 0 => loading)
    /\ [][loading => value' = value]_vars

\* A second planning fetch is in flight, after the first one was answered.
C11_Witness ==
    /\ Cardinality(Pending) = 1
    /\ Len(reqs) >= 2
    /\ reqs[1].status = "ok"
    /\ loading
    /\ value = LastReq.store

=============================================================================
